---- MODULE Spec2Model ----
(***************************************************************************)
(* State-machine model of yaqd_andor._andor_neo.AndorNeo: construction     *)
(* (scalar features, _set_aoi, _set_temperature), the background           *)
(* temperature convergence task, the feature queries and close().          *)
(*                                                                         *)
(* Temperatures are integers in tenths of a degree.  Optional              *)
(* configuration entries are sequences: <<>> is None, <<v>> is the value   *)
(* v.  The binning specifier "2x2" is the character sequence               *)
(* <<"2","x","2">>.                                                        *)
(***************************************************************************)
EXTENDS Integers, Sequences, FiniteSets, TLC

VARIABLES
    cfg,             \* self._config
    reg,             \* the values held by the feature registry (self.features)
    writes,          \* every Feature.set issued so far, in order
    pc,              \* position of the constructor / main path
    raised,          \* exception that left __init__ ("none" if none)
    failed_op,       \* <<step, i>>: the i-th registry operation of that step of
                     \* __init__ raised; <<>> if none did
    channel_shapes,  \* self._channel_shapes["image"], <<>> until assigned
    mappings,        \* self._mappings, <<>> until assigned
    message,         \* what the ValueError of _set_aoi says, <<>> if not raised
    clamps,          \* the registry silently clamps a written width or height
    inflight,        \* per thread, the feature whose get is in progress
    task,            \* state of the executor job _check_temp_stabilized
    set_temp,        \* local set_temp of the job (last target read)
    sensor_temp,     \* local sensor_temp of the job (last temperature read)
    readings,        \* sensor readings scripted for the job; <<>> = unconstrained
    surfaced,        \* sources of the failures delivered to the device's owner
    closed,          \* the hardware handle has been released
    reply            \* outcome of the last feature query

vars == <<cfg, reg, writes, pc, raised, failed_op, channel_shapes, mappings,
          message, clamps, inflight,
          task, set_temp, sensor_temp, readings, surfaced, closed, reply>>

aoiVars  == <<channel_shapes, mappings>>
taskVars == <<task, set_temp, sensor_temp, readings>>

----------------------------------------------------------------------------
(* Bounds of the model *)

SensorWidth  == 3      \* value of the sensor_width feature
SensorHeight == 2      \* value of the sensor_height feature
MaxBinning   == 2      \* binning specifiers "1x1" .. "<MaxBinning>x<MaxBinning>"
TargetTemp   == 200    \* value of the temperature_control feature (20.0 C)

None    == <<>>
Some(v) == <<v>>

Abs(x) == IF x < 0 THEN -x ELSE x
Max(a, b) == IF a < b THEN b ELSE a
Min(a, b) == IF a < b THEN a ELSE b

DigitChar == <<"1", "2", "3", "4", "5", "6", "7", "8", "9">>

\* int(c) for a one-character string c
IntOfChar(c) == IF c = "0" THEN 0
                ELSE CHOOSE n \in 1..9 : DigitChar[n] = c

\* f"{binning}x{binning}"
FormatBinning(binning) == <<DigitChar[binning], "x", DigitChar[binning]>>

\* np.arange(start, stop, step) for step > 0
Arange(start, stop, step) ==
    LET n == Max(0, -((start - stop) \div step))
    IN  [i \in 1..n |-> start + (i - 1) * step]

----------------------------------------------------------------------------
(* The feature registry *)

ScalarKeys == <<"spurious_noise_filter", "static_blemish_correction",
                "electronic_shuttering_mode", "simple_preamp_gain_control",
                "exposure_time">>

aoi_keys == <<"aoi_binning", "aoi_width", "aoi_left", "aoi_height", "aoi_top">>

\* the keys logged at the end of _set_aoi
AoiLogKeys == <<"aoi_height", "aoi_width", "aoi_top", "aoi_left", "aoi_binning">>

Range(s) == {s[i] : i \in 1..Len(s)}

Features == Range(ScalarKeys) \cup Range(aoi_keys) \cup
            {"sensor_width", "sensor_height", "sensor_cooling",
             "temperature_control", "sensor_temperature", "temperature_status"}

\* readings the sensor_temperature feature can deliver
Temps == {TargetTemp + d : d \in {-11, 10, 11}}

\* what the registry keeps of a value written to feature k: the value, or,
\* when it clamps, a width or height one below the one written
Stored(k, v) ==
    IF clamps /\ k \in {"aoi_width", "aoi_height"} /\ v > 1 THEN v - 1 ELSE v

\* Feature.set(value)
RegSet(r, k, v) == [r EXCEPT ![k] = Stored(k, v)]

\* the registry after the first n of the sets in the sequence ws
RECURSIVE RegApply(_, _, _)
RegApply(r, ws, n) ==
    IF n = 0 THEN r
    ELSE RegSet(RegApply(r, ws, n - 1), ws[n].k, ws[n].v)

Write(k, v) == [k |-> k, v |-> v]

----------------------------------------------------------------------------
(* Configurations *)

Binnings == {FormatBinning(n) : n \in 1..MaxBinning}
\* offsets from 0 to beyond the sensor, sizes from 0 to the width of the sensor
Offsets  == {None} \cup {Some(v) : v \in 0..(SensorHeight + 2)}
Sizes    == {None} \cup {Some(v) : v \in 0..SensorWidth}

Configs ==
    [spurious_noise_filter      : {TRUE},
     static_blemish_correction  : {TRUE},
     electronic_shuttering_mode : {"Rolling"},
     simple_preamp_gain_control : {"16-bit"},
     exposure_time              : {1},
     aoi_binning : Binnings,
     aoi_width   : Sizes,
     aoi_left    : Offsets,
     aoi_height  : Sizes,
     aoi_top     : Offsets,
     sensor_cooling : BOOLEAN]

\* state of the hardware when the constructor starts
RegInit ==
    [k \in Features |->
        CASE k = "sensor_width"        -> SensorWidth
          [] k = "sensor_height"       -> SensorHeight
          [] k = "aoi_binning"         -> FormatBinning(1)
          [] k = "aoi_width"           -> SensorWidth
          [] k = "aoi_height"          -> SensorHeight
          [] k = "aoi_left"            -> 1
          [] k = "aoi_top"             -> 1
          [] k = "temperature_control" -> TargetTemp
          [] k = "sensor_temperature"  -> TargetTemp
          [] k = "temperature_status"  -> "Not Stabilised"
          [] k = "exposure_time"       -> 0
          [] k \in {"electronic_shuttering_mode", "simple_preamp_gain_control"}
                                       -> "default"
          [] OTHER                     -> FALSE]

\* the device when the constructor starts, but for the scripted readings
\* and the behaviour of the registry
InitBase ==
    /\ cfg \in Configs
    /\ reg = RegInit
    /\ writes = <<>>
    /\ pc = "scalars"
    /\ raised = "none"
    /\ failed_op = <<>>
    /\ channel_shapes = <<>>
    /\ mappings = <<>>
    /\ task = "idle"
    /\ set_temp = 0
    /\ sensor_temp = 0
    /\ surfaced = {}
    /\ closed = FALSE
    /\ reply = [op |-> "none", kind |-> "none"]
    /\ message = <<>>
    /\ inflight = [main |-> "none", job |-> "none"]

\* readings left to the sensor, a registry that stores what is written
Init ==
    /\ InitBase
    /\ readings = <<>>
    /\ clamps = FALSE

\* the exception is caught and the constructor goes on to _set_temperature
AbortSwallowed(exc, op) ==
    /\ pc' = "temperature"
    /\ raised' = exc
    /\ failed_op' = op
    /\ surfaced' = surfaced \cup {"init"}

\* an exception leaves the constructor: the device is never ready
Abort(exc, op) ==
    /\ pc' = "aborted"
    /\ raised' = exc
    /\ failed_op' = op
    /\ surfaced' = surfaced \cup {"init"}

\* the step returns normally
Return(next) ==
    /\ pc' = next
    /\ UNCHANGED <<raised, failed_op, surfaced>>

----------------------------------------------------------------------------
(* __init__, lines 24-28: the scalar features *)

ScalarWrites == [i \in 1..Len(ScalarKeys) |-> Write(ScalarKeys[i], cfg[ScalarKeys[i]])]

\* fail = 0: every set succeeds; fail = i: the i-th set raises
ConfigureScalars ==
    /\ pc = "scalars"
    /\ \E fail \in 0..Len(ScalarKeys) :
         LET done == IF fail = 0 THEN Len(ScalarKeys) ELSE fail - 1
         IN  /\ reg' = RegApply(reg, ScalarWrites, done)
             /\ writes' = writes \o SubSeq(ScalarWrites, 1, done)
             /\ IF fail = 0
                  THEN Return("aoi")
                  ELSE Abort("ATCoreException", <<"scalars", fail>>)
    /\ UNCHANGED <<cfg, message, clamps, inflight, aoiVars, taskVars, closed, reply>>

----------------------------------------------------------------------------
(* _set_aoi, lines 33-88 *)

\* AoiLocals with the default width taken as max_width - left
AoiLocalsDefaultShort(c, max_width, max_height) ==
    LET binning == IntOfChar(c.aoi_binning[1])
        left    == IF c.aoi_left = None THEN 1 ELSE c.aoi_left[1]
        top     == IF c.aoi_top = None THEN 1 ELSE c.aoi_top[1]
        width0  == IF c.aoi_width = None THEN max_width - left
                                         ELSE c.aoi_width[1]
        height0 == IF c.aoi_height = None THEN max_height - top + 1
                                          ELSE c.aoi_height[1]
        width   == width0 \div binning
        height  == height0 \div binning
    IN  [binning  |-> binning,
         left     |-> left,
         top      |-> top,
         width    |-> width,
         height   |-> height,
         w_extent |-> width * binning + (left - 1),
         h_extent |-> height * binning + (top - 1)]

\* AoiLocals with the binned counts rounded up instead of down
AoiLocalsRoundUp(c, max_width, max_height) ==
    LET binning == IntOfChar(c.aoi_binning[1])
        left    == IF c.aoi_left = None THEN 1 ELSE c.aoi_left[1]
        top     == IF c.aoi_top = None THEN 1 ELSE c.aoi_top[1]
        width0  == IF c.aoi_width = None THEN max_width - left + 1
                                         ELSE c.aoi_width[1]
        height0 == IF c.aoi_height = None THEN max_height - top + 1
                                          ELSE c.aoi_height[1]
        width   == -((-width0) \div binning)
        height  == -((-height0) \div binning)
    IN  [binning  |-> binning,
         left     |-> left,
         top      |-> top,
         width    |-> width,
         height   |-> height,
         w_extent |-> width * binning + (left - 1),
         h_extent |-> height * binning + (top - 1)]

\* lines 35-58: the locals of _set_aoi once the sensor limits are read
AoiLocals(c, max_width, max_height) ==
    LET binning == IntOfChar(c.aoi_binning[1])
        left    == IF c.aoi_left = None THEN 1 ELSE c.aoi_left[1]
        top     == IF c.aoi_top = None THEN 1 ELSE c.aoi_top[1]
        width0  == IF c.aoi_width = None THEN max_width - left + 1
                                         ELSE c.aoi_width[1]
        height0 == IF c.aoi_height = None THEN max_height - top + 1
                                          ELSE c.aoi_height[1]
        width   == width0 \div binning
        height  == height0 \div binning
    IN  [binning  |-> binning,
         left     |-> left,
         top      |-> top,
         width    |-> width,
         height   |-> height,
         w_extent |-> width * binning + (left - 1),
         h_extent |-> height * binning + (top - 1)]

\* ExceedsSensor without the check of the height
ExceedsSensorWidthOnly(g, max_width, max_height) ==
    g.w_extent > max_width

\* lines 59-62: the condition under which _set_aoi raises ValueError
ExceedsSensor(g, max_width, max_height) ==
    g.w_extent > max_width \/ g.h_extent > max_height

\* lines 59-62: the text of the ValueError; the width is checked first, and
\* both messages start with the word "height"
BoundsMessage(g, max_width, max_height) ==
    IF g.w_extent > max_width
      THEN [dimension |-> "height", extent |-> g.w_extent, max |-> max_width]
      ELSE [dimension |-> "height", extent |-> g.h_extent, max |-> max_height]

\* AoiWrites with the two offsets exchanged
AoiWritesSwapped(g) ==
    <<Write("aoi_binning", FormatBinning(g.binning)),
      Write("aoi_width", g.width),
      Write("aoi_left", g.top),
      Write("aoi_height", g.height),
      Write("aoi_top", g.left)>>

\* AoiWrites with the binning set after the sizes and offsets
AoiWritesBinningLast(g) ==
    <<Write("aoi_width", g.width),
      Write("aoi_left", g.left),
      Write("aoi_height", g.height),
      Write("aoi_top", g.top),
      Write("aoi_binning", FormatBinning(g.binning))>>

\* lines 64-68: the sets issued after the bounds check, in order
AoiWrites(g) ==
    <<Write("aoi_binning", FormatBinning(g.binning)),
      Write("aoi_width", g.width),
      Write("aoi_left", g.left),
      Write("aoi_height", g.height),
      Write("aoi_top", g.top)>>

\* lines 74-85: the published mappings
AoiMappings(g) ==
    [x_index |-> Arange(g.left, g.left + g.width * g.binning, g.binning),
     y_index |-> Arange(g.top, g.top + g.height * g.binning, g.binning)]

\* Registry operations of _set_aoi, in program order:
\*   1, 2   get sensor_width, sensor_height
\*   3..7   set aoi_binning, aoi_width, aoi_left, aoi_height, aoi_top
\*   8, 9   get aoi_height, aoi_width
\*   10..14 get of the five logged features
NumAoiOps == 14

\* fail = 0: no registry operation raises; fail = i: the i-th one raises
SetAoi ==
    /\ pc = "aoi"
    /\ \E fail \in 0..NumAoiOps :
         LET max_width  == reg["sensor_width"]
             max_height == reg["sensor_height"]
             g          == AoiLocals(cfg, max_width, max_height)
             ws         == AoiWrites(g)
             done       == IF fail = 0 THEN Len(ws) ELSE Min(Len(ws), fail - 3)
             reg2       == RegApply(reg, ws, Max(0, done))
         IN  IF fail \in {1, 2}
               THEN /\ Abort("ATCoreException", <<"aoi", fail>>)
                    /\ UNCHANGED <<reg, writes, aoiVars, message>>
               ELSE IF ExceedsSensor(g, max_width, max_height)
               THEN /\ Abort("ValueError", <<>>)
                    /\ message' = BoundsMessage(g, max_width, max_height)
                    /\ UNCHANGED <<reg, writes, aoiVars>>
               ELSE /\ reg' = reg2
                    /\ writes' = writes \o SubSeq(ws, 1, done)
                    /\ UNCHANGED message
                    /\ IF fail \in 3..9
                         THEN UNCHANGED aoiVars
                         ELSE /\ channel_shapes' =
                                   <<reg2["aoi_height"], reg2["aoi_width"]>>
                              /\ mappings' = AoiMappings(g)
                    /\ IF fail = 0
                         THEN Return("temperature")
                         ELSE Abort("ATCoreException", <<"aoi", fail>>)
    /\ UNCHANGED <<cfg, clamps, inflight, taskVars, closed, reply>>

----------------------------------------------------------------------------
(* _set_temperature, lines 90-102 *)

\* the job called in place: the caller waits until the job has ended
CallerBlockedInline == task \in {"submitted", "sleeping"}

\* line 97: run_in_executor hands the job to a worker thread and returns at
\* once, so the constructor never waits for the job
CallerBlocked == FALSE

\* SubmitJob outside the branch on sensor_cooling
SubmitJobAlways(sensor_cooling) == "submitted"

\* lines 94-100: the job is handed to the executor on the cooling branch only
SubmitJob(sensor_cooling) == IF sensor_cooling THEN "submitted" ELSE "idle"

\* lines 92-100.  Registry operations: 1 set sensor_cooling,
\* 2 get temperature_control (cooling) or get sensor_temperature (uncooled)
SetTemperature ==
    /\ pc = "temperature"
    /\ \E fail \in 0..2 :
         LET sensor_cooling == cfg.sensor_cooling
         IN  /\ IF fail = 1
                  THEN UNCHANGED <<reg, writes>>
                  ELSE /\ reg' = RegSet(reg, "sensor_cooling", sensor_cooling)
                       /\ writes' = Append(writes,
                                           Write("sensor_cooling", sensor_cooling))
             /\ IF fail = 0
                  THEN /\ Return("status")
                       /\ task' = SubmitJob(sensor_cooling)
                  ELSE /\ Abort("ATCoreException", <<"temperature", fail>>)
                       /\ UNCHANGED task
    /\ UNCHANGED <<cfg, message, clamps, inflight, aoiVars, set_temp, sensor_temp, readings, closed, reply>>

\* line 102, and the return of the constructor
ReadStatus ==
    /\ pc = "status"
    /\ ~CallerBlocked
    /\ \E fail \in 0..1 :
         IF fail = 0
           THEN Return("ready")
           ELSE Abort("ATCoreException", <<"status", fail>>)
    /\ UNCHANGED <<cfg, message, clamps, inflight, reg, writes, aoiVars, taskVars, closed, reply>>

----------------------------------------------------------------------------
(* _check_temp_stabilized, lines 104-116, run by the executor *)

\* a tolerance of 0.5 C
ToleranceHalf == 10 \div 2

Tolerance == 10    \* 1.0 C

\* OutOfTolerance without abs()
OutOfToleranceSigned(target, current) == target - current > Tolerance

\* line 108: the condition of the while loop
OutOfTolerance(target, current) == Abs(target - current) > Tolerance

\* lines 105-107 and 113-115: read the target, read the sensor, compare.
\* fail = 1: the first get raises; fail = 2: the second get raises.  The
\* exception ends the job; the future that holds it was dropped at line 97,
\* so nothing is delivered to the device object.
ReadTemperatures ==
    \E fail \in 0..2 :
       IF fail = 1
         THEN /\ task' = "failed"
              /\ UNCHANGED <<set_temp, sensor_temp, readings>>
         ELSE IF fail = 2
         THEN /\ task' = "failed"
              /\ set_temp' = reg["temperature_control"]
              /\ UNCHANGED <<sensor_temp, readings>>
         ELSE /\ set_temp' = reg["temperature_control"]
              /\ IF readings = <<>>
                   THEN sensor_temp' \in Temps /\ UNCHANGED readings
                   ELSE sensor_temp' = Head(readings) /\ readings' = Tail(readings)
              /\ task' = IF OutOfTolerance(set_temp', sensor_temp')
                           THEN "sleeping" ELSE "stabilized"

\* lines 105-108: the job starts
CheckTempStart ==
    /\ task = "submitted"
    /\ ReadTemperatures
    /\ UNCHANGED <<cfg, message, clamps, inflight, reg, writes, pc, raised, failed_op, aoiVars, surfaced, closed, reply>>

\* lines 109-115 and 108: one pass through the loop after sleep(5)
CheckTempPoll ==
    /\ task = "sleeping"
    /\ ReadTemperatures
    /\ UNCHANGED <<cfg, message, clamps, inflight, reg, writes, pc, raised, failed_op, aoiVars, surfaced, closed, reply>>

----------------------------------------------------------------------------
(* The feature queries and close(), lines 121-138 *)

\* names a caller asks about
QueryKeys == {"aoi_width", "no_such_feature"}

\* features of enumerated kind
EnumFeatures == {"aoi_binning", "electronic_shuttering_mode",
                 "simple_preamp_gain_control", "temperature_control",
                 "temperature_status"}

\* the exception goes back to the caller of the query
Error(op, k, exc) ==
    /\ reply' = [op |-> op, key |-> k, kind |-> "error", exc |-> exc]
    /\ UNCHANGED surfaced

get_feature_names ==
    /\ pc = "ready"
    /\ reply' = [op |-> "names", kind |-> "names", val |-> Features]
    /\ UNCHANGED <<cfg, message, clamps, inflight, reg, writes, pc, raised, failed_op, aoiVars, taskVars, surfaced, closed>>

\* get_feature_value with a lookup that yields None for an unknown name
get_feature_value_lenient ==
    /\ pc = "ready"
    /\ \E k \in QueryKeys, fail \in 0..1 :
         IF k \notin Features
           THEN /\ reply' = [op |-> "value", key |-> k, kind |-> "value",
                              val |-> None]
                /\ UNCHANGED surfaced
         ELSE IF fail = 1 THEN Error("value", k, "ATCoreException")
         ELSE /\ reply' = [op |-> "value", key |-> k, kind |-> "value",
                            val |-> reg[k]]
              /\ UNCHANGED surfaced
    /\ UNCHANGED <<cfg, message, clamps, inflight, reg, writes, pc, raised, failed_op, aoiVars, taskVars, closed>>

get_feature_value ==
    /\ pc = "ready"
    /\ \E k \in QueryKeys, fail \in 0..1 :
         IF k \notin Features THEN Error("value", k, "KeyError")
         ELSE IF fail = 1 THEN Error("value", k, "ATCoreException")
         ELSE /\ reply' = [op |-> "value", key |-> k, kind |-> "value",
                            val |-> reg[k]]
              /\ UNCHANGED surfaced
    /\ UNCHANGED <<cfg, message, clamps, inflight, reg, writes, pc, raised, failed_op, aoiVars, taskVars, closed>>

get_feature_options ==
    /\ pc = "ready"
    /\ \E k \in QueryKeys :
         IF k \notin Features THEN Error("options", k, "KeyError")
         ELSE IF k \notin EnumFeatures
           THEN Error("options", k, "UnsupportedOperation")
         ELSE /\ reply' = [op |-> "options", key |-> k, kind |-> "options"]
              /\ UNCHANGED surfaced
    /\ UNCHANGED <<cfg, message, clamps, inflight, reg, writes, pc, raised, failed_op, aoiVars, taskVars, closed>>

\* close that also stops the job
close_stops_job ==
    /\ pc = "ready"
    /\ ~closed
    /\ closed' = TRUE
    /\ task' = IF task \in {"submitted", "sleeping"} THEN "cancelled" ELSE task
    /\ UNCHANGED <<cfg, message, clamps, inflight, reg, writes, pc, raised, failed_op, aoiVars,
                   set_temp, sensor_temp, readings, surfaced, reply>>

close ==
    /\ pc = "ready"
    /\ ~closed
    /\ closed' = TRUE
    /\ UNCHANGED <<cfg, message, clamps, inflight, reg, writes, pc, raised, failed_op, aoiVars, taskVars, surfaced, reply>>

----------------------------------------------------------------------------

Main == ConfigureScalars \/ SetAoi \/ SetTemperature \/ ReadStatus

Next ==
    \/ ConfigureScalars
    \/ SetAoi
    \/ SetTemperature
    \/ ReadStatus
    \/ CheckTempStart
    \/ CheckTempPoll
    \/ get_feature_names
    \/ get_feature_value
    \/ get_feature_options
    \/ close

Spec == Init /\ [][Next]_vars

\* cooled configurations with the offsets omitted
LiveInit ==
    /\ Init
    /\ cfg.sensor_cooling
    /\ cfg.aoi_left = None
    /\ cfg.aoi_top = None

\* the constructor runs on the caller's thread and is never descheduled
\* for good; nothing is assumed of the executor or of the readings
LiveSpec == LiveInit /\ [][Next]_vars /\ WF_vars(Main)

\* the scenario of a cooled device whose sensor reads 15.0, 17.5, 19.2 and
\* 19.5 C in that order
ScenarioReadings == <<150, 175, 192, 195>>

ScenarioInit ==
    /\ InitBase
    /\ cfg.sensor_cooling
    /\ cfg.aoi_left = None
    /\ cfg.aoi_top = None
    /\ readings = ScenarioReadings
    /\ clamps = FALSE

ScenarioSpec == ScenarioInit /\ [][Next]_vars

----------------------------------------------------------------------------
(* The registry operations of the job and of get_feature_value as steps of    *)
(* their own: a get is entered, and later returns or raises.  The job runs on *)
(* an executor thread (line 97), the queries on the thread of the event loop. *)

\* names a caller asks about while the job runs
RaceKeys == {"sensor_temperature", "aoi_width"}

\* lines 105 and 113: the job enters the get of temperature_control
JobBeginRead ==
    /\ task \in {"submitted", "sleeping"}
    /\ inflight.job = "none"
    /\ inflight' = [inflight EXCEPT !.job = "temperature_control"]
    /\ UNCHANGED <<cfg, message, clamps, reg, writes, pc, raised, failed_op, aoiVars,
                   taskVars, surfaced, closed, reply>>

\* lines 105-106 and 113-114: the get of temperature_control returns and the
\* job enters the get of sensor_temperature, or the get raises
JobReadTarget ==
    /\ inflight.job = "temperature_control"
    /\ \E fail \in 0..1 :
         IF fail = 1
           THEN /\ task' = "failed"
                /\ inflight' = [inflight EXCEPT !.job = "none"]
                /\ UNCHANGED set_temp
           ELSE /\ set_temp' = reg["temperature_control"]
                /\ inflight' = [inflight EXCEPT !.job = "sensor_temperature"]
                /\ UNCHANGED task
    /\ UNCHANGED <<cfg, message, clamps, reg, writes, pc, raised, failed_op, aoiVars,
                   sensor_temp, readings, surfaced, closed, reply>>

\* lines 106-108 and 114-115, 108: the get of sensor_temperature returns and
\* the loop condition is evaluated, or the get raises
JobReadSensor ==
    /\ inflight.job = "sensor_temperature"
    /\ inflight' = [inflight EXCEPT !.job = "none"]
    /\ \E fail \in 0..1 :
         IF fail = 1
           THEN /\ task' = "failed"
                /\ UNCHANGED <<sensor_temp, readings>>
           ELSE /\ IF readings = <<>>
                     THEN sensor_temp' \in Temps /\ UNCHANGED readings
                     ELSE sensor_temp' = Head(readings) /\ readings' = Tail(readings)
                /\ task' = IF OutOfTolerance(set_temp, sensor_temp')
                             THEN "sleeping" ELSE "stabilized"
    /\ UNCHANGED <<cfg, message, clamps, reg, writes, pc, raised, failed_op, aoiVars,
                   set_temp, surfaced, closed, reply>>

\* lines 125-126: get_feature_value looks the feature up and enters its get
QueryBegin ==
    /\ pc = "ready"
    /\ inflight.main = "none"
    /\ \E k \in RaceKeys : inflight' = [inflight EXCEPT !.main = k]
    /\ UNCHANGED <<cfg, message, clamps, reg, writes, pc, raised, failed_op, aoiVars,
                   taskVars, surfaced, closed, reply>>

\* line 126: the get returns or raises
QueryEnd ==
    /\ inflight.main # "none"
    /\ inflight' = [inflight EXCEPT !.main = "none"]
    /\ \E fail \in 0..1 :
         IF fail = 1 THEN Error("value", inflight.main, "ATCoreException")
         ELSE /\ \E v \in (IF inflight.main = "sensor_temperature"
                              THEN Temps ELSE {reg[inflight.main]}) :
                   reply' = [op |-> "value", key |-> inflight.main,
                             kind |-> "value", val |-> v]
              /\ UNCHANGED surfaced
    /\ UNCHANGED <<cfg, message, clamps, reg, writes, pc, raised, failed_op, aoiVars,
                   taskVars, closed>>

RaceNext ==
    \/ ConfigureScalars
    \/ SetAoi
    \/ SetTemperature
    \/ ReadStatus
    \/ JobBeginRead
    \/ JobReadTarget
    \/ JobReadSensor
    \/ QueryBegin
    \/ QueryEnd
    \/ close

\* cooled configurations with the offsets omitted
RaceInit ==
    /\ InitBase
    /\ cfg.sensor_cooling
    /\ cfg.aoi_left = None
    /\ cfg.aoi_top = None
    /\ readings = <<>>
    /\ clamps = FALSE

RaceSpec == RaceInit /\ [][RaceNext]_vars

\* a registry that silently clamps, configurations with the offsets omitted
ClampInit ==
    /\ InitBase
    /\ cfg.aoi_left = None
    /\ cfg.aoi_top = None
    /\ readings = <<>>
    /\ clamps = TRUE

ClampSpec == ClampInit /\ [][Next]_vars

----------------------------------------------------------------------------
(* Properties *)

\* the locals of _set_aoi for the configuration and sensor at hand
Geometry == AoiLocals(cfg, reg["sensor_width"], reg["sensor_height"])

\* the binned geometry violates a bound of the sensor
ViolatesBound ==
    \/ Geometry.width * Geometry.binning + (Geometry.left - 1) > reg["sensor_width"]
    \/ Geometry.height * Geometry.binning + (Geometry.top - 1) > reg["sensor_height"]

\* the sets issued so far to the features in ks
WritesTo(ks) == SelectSeq(writes, LAMBDA w : w.k \in ks)

\* the constructor got past _set_aoi
AoiReturned ==
    \/ pc \in {"temperature", "status", "ready"}
    \/ pc = "aborted" /\ failed_op # <<>> /\ failed_op[1] \in {"temperature", "status"}

\* _set_aoi ended, and none of its registry operations raised
AoiEndedNoFault ==
    \/ AoiReturned
    \/ pc = "aborted" /\ failed_op = <<>>

\* C1: whenever the binned geometry violates a bound, no set of aoi_width,
\* aoi_left, aoi_height or aoi_top (nor of aoi_binning) is ever issued, the
\* constructor never gets past _set_aoi, and _set_aoi, once the sensor limits
\* are read, ends in the ValueError of the bounds check.
C1_BoundsViolationRaisesBeforeWrites ==
    ViolatesBound =>
        /\ WritesTo({"aoi_binning", "aoi_width", "aoi_left",
                     "aoi_height", "aoi_top"}) = <<>>
        /\ ~AoiReturned
        /\ AoiEndedNoFault => pc = "aborted" /\ raised = "ValueError"

C1_Witness ==
    /\ ViolatesBound
    /\ pc = "aborted"
    /\ raised = "ValueError"
    /\ Geometry.h_extent > reg["sensor_height"]
    /\ Geometry.w_extent <= reg["sensor_width"]

\* C2: whenever both bounds hold and no registry operation of _set_aoi raises,
\* _set_aoi returns without error and the registry holds the computed values:
\* aoi_binning as "<n>x<n>", aoi_width and aoi_height in binned units,
\* aoi_left and aoi_top; the shape read back is (height, width).
C2_ValidGeometryApplied ==
    (~ViolatesBound /\ AoiEndedNoFault) =>
        /\ AoiReturned
        /\ raised # "ValueError"
        /\ reg["aoi_binning"] = <<DigitChar[Geometry.binning], "x",
                                  DigitChar[Geometry.binning]>>
        /\ reg["aoi_width"] = Geometry.width
        /\ reg["aoi_left"] = Geometry.left
        /\ reg["aoi_height"] = Geometry.height
        /\ reg["aoi_top"] = Geometry.top
        /\ channel_shapes = <<Geometry.height, Geometry.width>>

C2_Witness ==
    /\ ~ViolatesBound
    /\ pc = "temperature"
    /\ Geometry.binning = 2
    /\ Geometry.width = 1
    /\ Geometry.left = 2
    /\ Geometry.top = 1
    /\ Geometry.height = 1

\* the configured offset, an omitted one counting as 1
OffsetOrOne(o) == IF o = None THEN 1 ELSE o[1]

\* C3: when aoi_width (aoi_height) is omitted, the width (height) written to
\* and read back from the registry is (max_width - left + 1) // binning
\* ((max_height - top + 1) // binning), an omitted left (top) counting as 1;
\* a 2560x2160 sensor with binning 2 and left = top = 1 gives 1280 and 1080.
C3_DefaultFill ==
    LET n    == IntOfChar(cfg.aoi_binning[1])
        fill_w == (reg["sensor_width"] - OffsetOrOne(cfg.aoi_left) + 1) \div n
        fill_h == (reg["sensor_height"] - OffsetOrOne(cfg.aoi_top) + 1) \div n
        full == AoiLocals([aoi_binning |-> <<"2", "x", "2">>,
                           aoi_width |-> None, aoi_left |-> Some(1),
                           aoi_height |-> None, aoi_top |-> Some(1)], 2560, 2160)
    IN  /\ (channel_shapes # <<>> /\ cfg.aoi_width = None) =>
              /\ WritesTo({"aoi_width"}) = <<Write("aoi_width", fill_w)>>
              /\ channel_shapes[2] = fill_w
        /\ (channel_shapes # <<>> /\ cfg.aoi_height = None) =>
              /\ WritesTo({"aoi_height"}) = <<Write("aoi_height", fill_h)>>
              /\ channel_shapes[1] = fill_h
        /\ full.width = 1280 /\ full.height = 1080 /\ full.w_extent = 2560

C3_Witness ==
    /\ channel_shapes = <<1, 1>>
    /\ cfg.aoi_width = None
    /\ cfg.aoi_height = None
    /\ cfg.aoi_left = Some(2)
    /\ cfg.aoi_top = None
    /\ cfg.aoi_binning = <<"2", "x", "2">>

\* _set_aoi ran to its end without raising
AoiSucceeded == AoiReturned

\* C4 as claimed: after a successful _set_aoi, x_index has exactly width
\* entries, x_index[i] = left + i*binning, and y_index has exactly height
\* entries, y_index[i] = top + i*binning (width, height the binned counts).
C4_MappingsAsClaimed ==
    AoiSucceeded =>
        /\ Len(mappings.x_index) = Geometry.width
        /\ Len(mappings.y_index) = Geometry.height
        /\ \A i \in 0..(Len(mappings.x_index) - 1) :
              mappings.x_index[i + 1] = Geometry.left + i * Geometry.binning
        /\ \A i \in 0..(Len(mappings.y_index) - 1) :
              mappings.y_index[i + 1] = Geometry.top + i * Geometry.binning

\* the same for the geometries whose binned counts are not negative
C4_MappingsNonNegative ==
    (Geometry.width >= 0 /\ Geometry.height >= 0) => C4_MappingsAsClaimed

\* C5: an exception in any step of __init__ aborts construction.  The
\* constructor is aborted exactly when an exception has left it; once aborted
\* it stays aborted and issues no further set; a failure in the scalar features
\* or in _set_aoi leaves sensor_cooling unwritten, the shapes of a failed
\* bounds check unassigned, and no job submitted.
C5_AbortState ==
    /\ (raised # "none") <=> (pc = "aborted")
    /\ (pc = "aborted" /\ ~AoiReturned) =>
          /\ WritesTo({"sensor_cooling"}) = <<>>
          /\ task = "idle"
    /\ (pc = "aborted" /\ failed_op # <<>> /\ failed_op[1] = "scalars") =>
          /\ Len(writes) = failed_op[2] - 1
          /\ channel_shapes = <<>>
    /\ (pc = "aborted" /\ failed_op # <<>> /\ failed_op[1] = "temperature") =>
          task = "idle"

C5_AbortStep ==
    (pc = "aborted") => (pc' = "aborted" /\ writes' = writes /\ reg' = reg)

C5_InitFailureAborts == []C5_AbortState /\ [][C5_AbortStep]_vars

C5_Witness ==
    /\ pc = "aborted"
    /\ raised = "ValueError"
    /\ cfg.sensor_cooling
    /\ Len(writes) = Len(ScalarKeys)

\* C6: with sensor_cooling configured false, sensor_cooling is never set to
\* anything but false and never set twice, it has been set exactly once when
\* _set_temperature has returned, and no job is ever submitted.
C6_UncooledWritesOnce ==
    ~cfg.sensor_cooling =>
        /\ task = "idle"
        /\ Len(WritesTo({"sensor_cooling"})) <= 1
        /\ \A i \in 1..Len(WritesTo({"sensor_cooling"})) :
              WritesTo({"sensor_cooling"})[i].v = FALSE
        /\ pc \in {"status", "ready"} => Len(WritesTo({"sensor_cooling"})) = 1

C6_Witness ==
    /\ ~cfg.sensor_cooling
    /\ pc = "ready"
    /\ closed
    /\ WritesTo({"sensor_cooling"}) = <<Write("sensor_cooling", FALSE)>>

\* C7: the job exists only with sensor_cooling configured true; it has ended
\* as stabilized only at a pair of reads (target, then sensor) with
\* |target - current| <= 1.0, and it is still in its loop only after a pair
\* of reads with |target - current| > 1.0.
C7_StabilizedWithinTolerance ==
    /\ task # "idle" => cfg.sensor_cooling
    /\ task = "stabilized" => Abs(set_temp - sensor_temp) <= 10
    /\ task = "sleeping" => Abs(set_temp - sensor_temp) > 10

C7_Witness ==
    /\ task = "stabilized"
    /\ set_temp - sensor_temp = -10
    /\ pc = "ready"

\* C8: with sensor_cooling configured true the constructor ends, ready unless
\* an exception left it, whatever the job does and whatever the sensor
\* reads, and every step of the constructor is enabled whatever the state of
\* the job: the constructor never waits for the job.
C8_InitNeverWaitsForJob ==
    /\ (pc = "scalars" /\ cfg.sensor_cooling) ~> (pc = "ready" \/ raised # "none")
    /\ [](pc \in {"scalars", "aoi", "temperature", "status"} => ENABLED Main)

C8_Witness ==
    /\ cfg.sensor_cooling
    /\ pc = "ready"
    /\ task = "sleeping"
    /\ sensor_temp = set_temp - 11

\* C9 as claimed: a job ended by a failed registry read has had its failure
\* delivered to the device's owner.
C9_JobFailureSurfaced ==
    task = "failed" => "job" \in surfaced

\* C10 as claimed: a computed binned width or height that is zero or negative
\* makes _set_aoi raise the configuration error, and the device is never ready.
C10_NonPositiveRejected ==
    (Geometry.width <= 0 \/ Geometry.height <= 0) =>
        /\ ~AoiReturned
        /\ AoiEndedNoFault => pc = "aborted" /\ raised = "ValueError"

\* C11 as claimed: the ValueError of the bounds check names the offending
\* dimension, the computed extent and the limit: width, w_extent and
\* max_width for a width violation, height, h_extent and max_height for a
\* violation of the height alone.
C11_MessageNamesDimension ==
    raised = "ValueError" =>
        IF Geometry.w_extent > reg["sensor_width"]
          THEN message = [dimension |-> "width", extent |-> Geometry.w_extent,
                          max |-> reg["sensor_width"]]
          ELSE message = [dimension |-> "height", extent |-> Geometry.h_extent,
                          max |-> reg["sensor_height"]]

\* the numbers of the message are the extent and the limit of the dimension
\* that failed, whatever word precedes them
C11_MessageNumbers ==
    raised = "ValueError" =>
        IF Geometry.w_extent > reg["sensor_width"]
          THEN message.extent = Geometry.w_extent /\ message.max = reg["sensor_width"]
          ELSE message.extent = Geometry.h_extent /\ message.max = reg["sensor_height"]

\* C12 as claimed: in every ready state the applied AOI has 1 <= left,
\* 1 <= top, width*binning + (left-1) <= sensor_width and
\* height*binning + (top-1) <= sensor_height.
C12_ReadyAoiWithinSensor ==
    pc = "ready" =>
        LET n == IntOfChar(reg["aoi_binning"][1])
        IN  /\ 1 <= reg["aoi_left"]
            /\ 1 <= reg["aoi_top"]
            /\ reg["aoi_width"] * n + (reg["aoi_left"] - 1) <= reg["sensor_width"]
            /\ reg["aoi_height"] * n + (reg["aoi_top"] - 1) <= reg["sensor_height"]

\* the two upper bounds alone hold in every ready state
C12_ReadyUpperBounds ==
    pc = "ready" =>
        LET n == IntOfChar(reg["aoi_binning"][1])
        IN  /\ reg["aoi_width"] * n + (reg["aoi_left"] - 1) <= reg["sensor_width"]
            /\ reg["aoi_height"] * n + (reg["aoi_top"] - 1) <= reg["sensor_height"]

\* a step that answers a feature query: only those steps change reply
QueryStep == reply' # reply

\* C13: a step of get_feature_names, get_feature_value or
\* get_feature_options issues no set and leaves the registry, the
\* configuration, the channel shape, the mappings, the constructor's outcome,
\* the job and the handle as they were; a query of a value or of the options
\* of a name that is not registered is answered by an error, never a value.
C13_QueryStep ==
    QueryStep =>
        /\ writes' = writes
        /\ reg' = reg
        /\ cfg' = cfg
        /\ channel_shapes' = channel_shapes
        /\ mappings' = mappings
        /\ <<pc, raised, task, closed>>' = <<pc, raised, task, closed>>
        /\ reply'.op \in {"names", "value", "options"}
        /\ (reply'.op # "names" /\ reply'.key \notin Features) =>
              reply'.kind = "error"

C13_QueriesReadOnly == [][C13_QueryStep]_vars

C13_Witness ==
    /\ reply.op = "value"
    /\ reply.key = "no_such_feature"
    /\ reply.kind = "error"
    /\ reply.exc = "KeyError"
    /\ task = "sleeping"

\* C14: the sets issued to the AOI features are always a prefix of
\* aoi_binning, aoi_width, aoi_left, aoi_height, aoi_top: no size or offset is
\* set before aoi_binning, and none is set twice.
C14_AoiWriteOrder ==
    LET ws == WritesTo({"aoi_binning", "aoi_width", "aoi_left",
                        "aoi_height", "aoi_top"})
        order == <<"aoi_binning", "aoi_width", "aoi_left", "aoi_height", "aoi_top">>
    IN  /\ Len(ws) <= Len(order)
        /\ \A i \in 1..Len(ws) : ws[i].k = order[i]

C14_Witness ==
    /\ pc = "aborted"
    /\ failed_op = <<"aoi", 5>>
    /\ Len(WritesTo({"aoi_binning", "aoi_width"})) = 2
    /\ WritesTo({"aoi_left", "aoi_height", "aoi_top"}) = <<>>

\* C19: with aoi_width and aoi_height both omitted and effective offsets
\* 1 <= left <= max_width, 1 <= top <= max_height, the default-filled binned
\* extents stay within the sensor, multiple of the binning or not: the bounds
\* check never fails and _set_aoi, no registry operation raising, returns.
C19_DefaultFillWithinBounds ==
    LET left == OffsetOrOne(cfg.aoi_left)
        top  == OffsetOrOne(cfg.aoi_top)
    IN  (/\ cfg.aoi_width = None
         /\ cfg.aoi_height = None
         /\ 1 <= left /\ left <= reg["sensor_width"]
         /\ 1 <= top /\ top <= reg["sensor_height"])
        =>
        /\ Geometry.width * Geometry.binning + (left - 1) <= reg["sensor_width"]
        /\ Geometry.height * Geometry.binning + (top - 1) <= reg["sensor_height"]
        /\ raised # "ValueError"
        /\ AoiEndedNoFault => AoiReturned

C19_Witness ==
    /\ cfg.aoi_width = None
    /\ cfg.aoi_height = None
    /\ cfg.aoi_left = Some(1)
    /\ cfg.aoi_top = Some(2)
    /\ cfg.aoi_binning = <<"2", "x", "2">>
    /\ (reg["sensor_width"] - 1 + 1) % 2 = 1
    /\ pc = "ready"
    /\ reg["aoi_width"] = 1
    /\ reg["aoi_height"] = 0

\* the job is in its loop or about to enter it
JobRunning == task \in {"submitted", "sleeping"}

\* C18: the job leaves its loop only by a pair of reads within 1.0 of each
\* other or by a read that raises; as long as it is in the loop its next pass
\* is enabled, closed or not; close() leaves the job as it is, so the job's
\* registry reads remain enabled after the handle is released.
C18_State ==
    /\ task = "sleeping" => ENABLED CheckTempPoll
    /\ (closed /\ task = "submitted") => ENABLED CheckTempStart
    /\ task \in {"idle", "submitted", "sleeping", "stabilized", "failed"}

C18_Step ==
    /\ (task = "sleeping" /\ task' # "sleeping") =>
          \/ task' = "failed"
          \/ task' = "stabilized" /\ Abs(set_temp' - sensor_temp') <= 10
    /\ (task = "sleeping" /\ task' = "sleeping" /\ sensor_temp' # sensor_temp) =>
          Abs(set_temp' - sensor_temp') > 10
    /\ closed' # closed => (closed' /\ task' = task)
    /\ closed => closed'

C18_LoopOutlivesClose == []C18_State /\ [][C18_Step]_vars

C18_Witness ==
    /\ closed
    /\ task = "sleeping"
    /\ ENABLED CheckTempPoll

\* C16 as claimed: with the readings 15.0, 17.5, 19.2, 19.5 and the target
\* 20.0 the job stops at the fourth reading.
C16_StopsAtFourthReading ==
    task = "stabilized" => (sensor_temp = 195 /\ readings = <<>>)

\* C16, amended: the job goes through its loop after the readings 15.0 and
\* 17.5 and stops at the third reading, 19.2, whose difference from the
\* target is within 1.0; the fourth reading is never taken.
C16_StopsAtThirdReading ==
    /\ task = "stabilized" => (sensor_temp = 192 /\ readings = <<195>>)
    /\ task = "sleeping" =>
          \/ sensor_temp = 150 /\ readings = <<175, 192, 195>>
          \/ sensor_temp = 175 /\ readings = <<192, 195>>
    /\ Len(readings) >= 1

C16_Witness ==
    /\ task = "stabilized"
    /\ set_temp = 200
    /\ sensor_temp = 192
    /\ readings = <<195>>

\* C17 as claimed: after a successful _set_aoi the shape of the "image"
\* channel is (h, w) as read back from aoi_height and aoi_width, and the
\* mappings agree with it, len(y_index) = h and len(x_index) = w, also when
\* the registry clamps a written width or height.
C17_MappingsAgreeWithShape ==
    AoiSucceeded =>
        /\ channel_shapes = <<reg["aoi_height"], reg["aoi_width"]>>
        /\ Len(mappings.y_index) = channel_shapes[1]
        /\ Len(mappings.x_index) = channel_shapes[2]

\* the shape alone is the one read back, clamped or not
C17_ShapeReadBack ==
    AoiSucceeded => channel_shapes = <<reg["aoi_height"], reg["aoi_width"]>>

\* C15 as claimed: no two registry operations are ever in progress at the
\* same time against the same feature.
C15_OneOperationPerFeature ==
    inflight.main = "none" \/ inflight.main # inflight.job

\* the constructor itself never has a registry operation in progress while
\* the job has one against the same feature: line 102 reads
\* temperature_status, which the job never touches
C15_ConstructorApart ==
    pc # "ready" => inflight.main = "none"

====
